---- MODULE Spec2Model ----
(***************************************************************************)
(* Model of the App component of stock-app-frontend/src/App.js: the four   *)
(* useState cells (ticker, stockData, loading, error), the input's         *)
(* onChange handler, the search button and the async handleSearch handler, *)
(* split at its single await into the part that runs on the click and the  *)
(* continuation that runs when the axios promise settles.                  *)
(*                                                                         *)
(* Strings that the code inspects (the ticker) are sequences of one-       *)
(* character strings; JavaScript values that are only stored and compared  *)
(* are tagged records, so that null, strings, arrays and objects stay      *)
(* distinct values.  The user-facing messages are written in English.      *)
(***************************************************************************)
EXTENDS Integers, Sequences, FiniteSets, TLC

VARIABLES ticker, stockData, loading, error, inflight, issued, lastRaw, last

vars == <<ticker, stockData, loading, error, inflight, issued, lastRaw, last>>

(* ---------------------------- bounds ----------------------------------- *)

\* longest text typed into the input field
MaxLen == 2
\* longest array of points the backend answers with
MaxPoints == 2
\* number of requests issued in one behaviour
MaxRequests == 3

(* ------------------------ JavaScript values ---------------------------- *)

Null == [type |-> "null"]

Undefined == [type |-> "undefined"]

Str(s) == [type |-> "string", val |-> s]

Arr(items) == [type |-> "array", val |-> items]

\* the only objects the backend sends are objects with an `error` field
Obj(e) == [type |-> "object", error |-> e]

\* ToBoolean of a JavaScript value
Truthy(v) ==
    CASE v.type = "null" -> FALSE
      [] v.type = "undefined" -> FALSE
      [] v.type = "string" -> v.val # ""
      [] OTHER -> TRUE

\* the property read response.data.error
GetError(data) == IF data.type = "object" THEN data.error ELSE Undefined

HasErrorField(data) == data.type = "object"

SeqsUpTo(S, n) == UNION {[1..k -> S] : k \in 0..n}

(* ------------------------------ ticker --------------------------------- *)

Chars == {"a", "A", " "}

Whitespace == {" "}

RawInputs == SeqsUpTo(Chars, MaxLen)

UpperChar(c) == IF c = "a" THEN "A" ELSE c

\* variant: the typed text stored as it is
toUpperCaseIdentity(s) == s

\* String.prototype.toUpperCase
toUpperCase(s) == [i \in 1..Len(s) |-> UpperChar(s[i])]

\* variant: !ticker.trim()
NotTickerTrimmed(t) == \A i \in 1..Len(t) : t[i] \in Whitespace

\* !ticker : a string is falsy exactly when it is empty
NotTicker(t) == Len(t) = 0

(* ----------------------------- messages -------------------------------- *)

MsgTickerRequired == "ticker code required"

MsgFetchFailed == "failed to fetch data; check that the API server is running"

(* ------------------------- backend and network ------------------------- *)

Points == {[date |-> "2024-01-01", close |-> 100],
           [date |-> "2024-01-02", close |-> 102]}

ArrayBodies == {Arr(s) : s \in SeqsUpTo(Points, MaxPoints)}

ErrorBodies == {Obj(Str(m)) : m \in {"not found", ""}}

Bodies == ArrayBodies \cup ErrorBodies

Statuses == {200, 404}

FailureDetails == {"ECONNREFUSED", "timeout"}

NoData == Undefined

\* what can come back for one GET: an HTTP response or a network failure
Outcomes ==
    {[kind |-> "response", status |-> s, data |-> b, detail |-> "status"] :
        s \in Statuses, b \in Bodies}
    \cup
    {[kind |-> "failure", status |-> 0, data |-> NoData, detail |-> d] :
        d \in FailureDetails}

NoOutcome == [kind |-> "none", status |-> 0, data |-> NoData, detail |-> ""]

\* axios.get fulfils its promise for a 2xx response and rejects otherwise
AxiosResolves(o) == o.kind = "response" /\ o.status >= 200 /\ o.status < 300

(* ------------------------------- state --------------------------------- *)

\* the values the operation found when it started
Before == [stockData |-> stockData, error |-> error, loading |-> loading,
           issued |-> issued]

\* record of the operation that produced the current state: its name, the
\* ticker it worked on, for a settled request its id and outcome, and the
\* values it started from
Rec(o, t, i, out) ==
    [op |-> o, ticker |-> t, id |-> i, outcome |-> out, before |-> Before]

Init ==
    /\ ticker = <<>>
    /\ stockData = Null
    /\ loading = FALSE
    /\ error = Null
    /\ inflight = {}
    /\ issued = 0
    /\ lastRaw = <<>>
    /\ last = [op |-> "init", ticker |-> <<>>, id |-> 0, outcome |-> NoOutcome,
               before |-> [stockData |-> Null, error |-> Null,
                           loading |-> FALSE, issued |-> 0]]

(* ------------------------------ handlers ------------------------------- *)

\* variant: typing also dismisses the displayed error
setTickerClearsError(raw) ==
    /\ ticker' = toUpperCase(raw)
    /\ lastRaw' = raw
    /\ last' = Rec("setTicker", ticker, 0, NoOutcome)
    /\ error' = Null
    /\ UNCHANGED <<stockData, loading, inflight, issued>>

\* onChange of the input
setTickerOnChange(raw) ==
    /\ ticker' = toUpperCase(raw)
    /\ lastRaw' = raw
    /\ last' = Rec("setTicker", ticker, 0, NoOutcome)
    /\ UNCHANGED <<stockData, loading, error, inflight, issued>>

\* variant: setLoading(true) placed above the validation
ValidationFailureSetsLoading ==
    /\ error' = Str(MsgTickerRequired)
    /\ loading' = TRUE
    /\ UNCHANGED <<stockData, inflight, issued>>

\* if (!ticker) { setError(...); return; }
ValidationFailure ==
    /\ error' = Str(MsgTickerRequired)
    /\ UNCHANGED <<stockData, loading, inflight, issued>>

\* variant: only setLoading(true)
PreRequestResetKeepsOutcome ==
    /\ loading' = TRUE
    /\ UNCHANGED <<error, stockData>>

\* setLoading(true); setError(null); setStockData(null);
PreRequestReset ==
    /\ loading' = TRUE
    /\ error' = Null
    /\ stockData' = Null

\* variant: the GET sent twice
IssueRequestTwice ==
    /\ issued < MaxRequests
    /\ issued' = issued + 2
    /\ inflight' = inflight \cup {[id |-> issued + 1, ticker |-> ticker],
                                  [id |-> issued + 2, ticker |-> ticker]}

\* axios.get(`.../api/stock_data/${ticker}`) up to the await
IssueRequest ==
    /\ issued < MaxRequests
    /\ issued' = issued + 1
    /\ inflight' = inflight \cup {[id |-> issued + 1, ticker |-> ticker]}

\* handleSearch from its entry to the await
handleSearch ==
    /\ IF NotTicker(ticker)
          THEN ValidationFailure
          ELSE PreRequestReset /\ IssueRequest
    /\ last' = Rec("search", ticker, 0, NoOutcome)
    /\ UNCHANGED <<ticker, lastRaw>>

\* variant: a button without the disabled attribute
SearchButtonNeverDisabled == FALSE

\* <button onClick={handleSearch} disabled={loading}>
SearchButtonDisabled == loading

ClickSearch ==
    /\ ~SearchButtonDisabled
    /\ handleSearch

\* variant: the backend's message replaced by the generic one
OnDomainErrorGeneric(data) ==
    /\ error' = Str(MsgFetchFailed)
    /\ UNCHANGED stockData

\* setError(response.data.error)
OnDomainError(data) ==
    /\ error' = data.error
    /\ UNCHANGED stockData

\* variant: setStockData(response.data.slice(1))
OnSuccessDropsFirst(data) ==
    /\ stockData' = IF data.type = "array" /\ Len(data.val) > 0
                       THEN Arr(Tail(data.val)) ELSE data
    /\ UNCHANGED error

\* setStockData(response.data)
OnSuccess(data) ==
    /\ stockData' = data
    /\ UNCHANGED error

\* variant: setError(err.message)
OnCatchShowsDetail(o) ==
    /\ error' = Str(o.detail)
    /\ UNCHANGED stockData

\* catch (err) { console.error(...); setError(<fixed message>); }
OnCatch(o) ==
    /\ error' = Str(MsgFetchFailed)
    /\ UNCHANGED stockData

\* variant: setLoading(false) at the end of the try block
FinallyOnlyAfterResponse(o) ==
    IF AxiosResolves(o) THEN loading' = FALSE ELSE UNCHANGED loading

\* finally { setLoading(false); }
Finally(o) == loading' = FALSE

\* handleSearch from the await to its end, for the request r settling as o
handleSearchResume(r, o) ==
    /\ r \in inflight
    /\ inflight' = inflight \ {r}
    /\ IF AxiosResolves(o)
          THEN IF Truthy(GetError(o.data))
                  THEN OnDomainError(o.data)
                  ELSE OnSuccess(o.data)
          ELSE OnCatch(o)
    /\ Finally(o)
    /\ last' = Rec("resume", r.ticker, r.id, o)
    /\ UNCHANGED <<ticker, lastRaw, issued>>

TypeInput == \E raw \in RawInputs : setTickerOnChange(raw)

Settle == \E r \in inflight : \E o \in Outcomes : handleSearchResume(r, o)

Next == TypeInput \/ ClickSearch \/ Settle

Spec == Init /\ [][Next]_vars

\* every request that was issued is eventually answered or fails
FairSpec == Spec /\ WF_vars(Settle)

(* --------------------------- vocabulary -------------------------------- *)

Searched == last.op = "search"

Resumed == last.op = "resume"

EmptyTicker(t) == Len(t) = 0

WhitespaceOnly(t) == Len(t) > 0 /\ \A i \in 1..Len(t) : t[i] \in Whitespace

LowerChars == {"a"}

IsUpperCase(t) == \A i \in 1..Len(t) : t[i] \notin LowerChars

\* the request the last search issued, if it issued one
RequestOfLastSearch == [id |-> last.before.issued + 1, ticker |-> last.ticker]

\* the last search set the validation error and did nothing else
ValidationOutcome ==
    /\ error = Str(MsgTickerRequired)
    /\ loading = FALSE
    /\ last.before.loading = FALSE
    /\ issued = last.before.issued
    /\ inflight = {}

(* ------------------------------ claims --------------------------------- *)

\* C1: a search made while ticker is the empty string sets error to the
\* validation message, issues no request and leaves loading false.
C1_EmptyTickerIsRejected == (Searched /\ EmptyTicker(last.ticker)) => ValidationOutcome

C1_Witness ==
    /\ Searched /\ EmptyTicker(last.ticker)
    /\ error = Str(MsgTickerRequired)
    /\ last.before.error = Null

\* C2 as stated: a search made while ticker consists only of whitespace
\* is handled exactly as a search with the empty ticker.
C2_WhitespaceIsRejected == (Searched /\ WhitespaceOnly(last.ticker)) => ValidationOutcome

\* C2 as the code has it: a whitespace-only ticker is not empty, so the
\* search sets no validation error, sets loading and issues a request for
\* that ticker.
C2_WhitespaceIsSearched ==
    (Searched /\ WhitespaceOnly(last.ticker)) =>
        /\ error = Null
        /\ loading = TRUE
        /\ issued = last.before.issued + 1
        /\ RequestOfLastSearch \in inflight

C2_Witness ==
    /\ Searched /\ WhitespaceOnly(last.ticker)
    /\ RequestOfLastSearch \in inflight

\* C3: a search with a non-empty ticker sets loading, loading stays true
\* for as long as the request is pending, and loading is false right after
\* the request settles, whatever its outcome.
C3_LoadingBracketsRequest ==
    /\ (Searched /\ ~EmptyTicker(last.ticker)) => loading = TRUE
    /\ inflight # {} => loading = TRUE
    /\ Resumed => loading = FALSE

C3_Witness ==
    /\ Resumed
    /\ ~AxiosResolves(last.outcome)
    /\ last.before.loading = TRUE
    /\ loading = FALSE

\* C4 as stated: whenever the response body has an error field, whatever
\* its value and whatever the HTTP status, error is that field's value and
\* series is null after the request settles.
C4_ErrorFieldPresence ==
    (Resumed /\ last.outcome.kind = "response" /\ HasErrorField(last.outcome.data)) =>
        /\ error = last.outcome.data.error
        /\ stockData = Null

\* C4 as the code has it: when the response has a 2xx status and its body's
\* error field is truthy (a non-empty message), error is that message and
\* series is null after the request settles.
C4_TruthyErrorField ==
    (/\ Resumed
     /\ AxiosResolves(last.outcome)
     /\ HasErrorField(last.outcome.data)
     /\ Truthy(last.outcome.data.error)) =>
        /\ error = last.outcome.data.error
        /\ stockData = Null

C4_Witness ==
    /\ Resumed
    /\ AxiosResolves(last.outcome)
    /\ last.outcome.data = Obj(Str("not found"))
    /\ error = Str("not found")

\* C5: when the request is answered with a body that has no error field,
\* series is exactly that body afterwards (same points, same order) and
\* error is null.
C5_SeriesIsBody ==
    (Resumed /\ AxiosResolves(last.outcome) /\ ~HasErrorField(last.outcome.data)) =>
        /\ stockData = last.outcome.data
        /\ error = Null

C5_Witness ==
    /\ Resumed
    /\ AxiosResolves(last.outcome)
    /\ last.outcome.data.type = "array"
    /\ Len(last.outcome.data.val) = 2
    /\ last.outcome.data.val[1] # last.outcome.data.val[2]
    /\ stockData = last.outcome.data
    /\ last.id > 1

\* C6: when the request is rejected, error is the one fixed message
\* afterwards, whatever the failure was, and series is null.
C6_RejectionGivesFixedMessage ==
    (Resumed /\ ~AxiosResolves(last.outcome)) =>
        /\ error = Str(MsgFetchFailed)
        /\ stockData = Null

C6_Witness ==
    /\ Resumed
    /\ last.outcome.kind = "failure"
    /\ last.outcome.detail = "ECONNREFUSED"
    /\ error = Str(MsgFetchFailed)

\* C7: a search with a non-empty ticker clears series and error, and both
\* stay null until the request settles.
C7_SearchClearsOutcome ==
    /\ (Searched /\ ~EmptyTicker(last.ticker)) => (stockData = Null /\ error = Null)
    /\ inflight # {} => (stockData = Null /\ error = Null)

C7_Witness ==
    /\ Searched /\ ~EmptyTicker(last.ticker)
    /\ last.before.stockData # Null
    /\ stockData = Null
    /\ inflight # {}

C7_WitnessError ==
    /\ Searched /\ ~EmptyTicker(last.ticker)
    /\ last.before.error # Null
    /\ error = Null

\* C8: in the state where a search has set an error (validation, domain or
\* transport), series is null.
C8_ErrorsClearChart ==
    (\/ (Searched /\ EmptyTicker(last.ticker))
     \/ (Resumed /\ error # Null)) => stockData = Null

\* C9: the stored ticker is always the uppercase of the last text typed,
\* it contains no lowercase letter, and a search or a settling request
\* leaves it as it was.
C9_TickerIsUpperCase ==
    /\ IsUpperCase(ticker)
    /\ Len(ticker) = Len(lastRaw)
    /\ \A i \in 1..Len(lastRaw) :
          IF lastRaw[i] = "a" THEN ticker[i] = "A" ELSE ticker[i] = lastRaw[i]
    /\ Searched => ticker = last.ticker

C9_Witness ==
    /\ lastRaw = <<"a", "a">>
    /\ ticker = <<"A", "A">>
    /\ Searched

\* C10 as stated: while a request is pending the user can trigger another
\* search.
C10_SearchWhilePending == inflight # {} => ~SearchButtonDisabled

\* C10 as the code has it: while a request is pending the search button is
\* disabled, so the response that is applied is always that of the most
\* recently issued request and no request is pending after it.
C10_NoSearchWhilePending ==
    /\ inflight # {} => SearchButtonDisabled
    /\ Resumed => (last.id = issued /\ inflight = {})

C10_Witness ==
    /\ Resumed
    /\ last.id = 2
    /\ issued = 2

\* C11: a search with a non-empty ticker issues exactly one request, for
\* the ticker held when the search was triggered, and a settling request
\* or an edit of the input issues none.
C11_OneRequestPerSearch ==
    /\ (Searched /\ ~EmptyTicker(last.ticker)) =>
          /\ issued = last.before.issued + 1
          /\ inflight = {RequestOfLastSearch}
          /\ last.ticker = ticker
    /\ ~Searched => issued = last.before.issued
    /\ Resumed => inflight = {}

C11_Witness ==
    /\ Resumed
    /\ ~AxiosResolves(last.outcome)
    /\ issued = last.before.issued
    /\ issued = 1
    /\ inflight = {}

\* C12: loading is true only while a request is pending.
C12_LoadingOnlyWhilePending == loading = TRUE => inflight # {}

C12_Witness ==
    /\ loading = TRUE
    /\ inflight # {}
    /\ last.op = "setTicker"

\* C13: while loading is true neither an error nor a series is held.
C13_LoadingExcludesOutcome == loading = TRUE => (error = Null /\ stockData = Null)

C13_Witness ==
    /\ loading = TRUE
    /\ Searched
    /\ last.before.error # Null
    /\ last.before.stockData # Null

\* C14: provided every issued request settles, a state with loading false
\* always comes again.
C14_LoadingEventuallyFalse == (loading = TRUE) ~> (loading = FALSE)

C14_Witness ==
    /\ Resumed
    /\ error # Null
    /\ last.before.loading = TRUE
    /\ loading = FALSE
    /\ ~SearchButtonDisabled

\* C15: the search button is disabled whenever loading is true, every
\* search starts with loading false, and at most one request is pending.
C15_AtMostOneRequestPending ==
    /\ loading = TRUE => SearchButtonDisabled
    /\ Searched => last.before.loading = FALSE
    /\ Cardinality(inflight) <= 1

C15_Witness ==
    /\ Searched
    /\ Cardinality(inflight) = 1
    /\ issued = 2

\* C16: editing the input changes nothing but ticker: loading, error,
\* series, the pending requests and the tickers they were issued for stay
\* as they are.
C16_SetTickerFrame ==
    [][last'.op = "setTicker" =>
          /\ loading' = loading
          /\ error' = error
          /\ stockData' = stockData
          /\ inflight' = inflight
          /\ issued' = issued]_vars

C16_Witness ==
    /\ last.op = "setTicker"
    /\ inflight # {}
    /\ \A r \in inflight : r.ticker # ticker

====
